---- MODULE Spec2Model ----
(***************************************************************************)
(* MemoryBuffer<T> of astroio (src/src/memory_buffer.hpp) as a state       *)
(* machine: a few buffer objects, a heap of addresses that the allocators  *)
(* hand out and take back, one dump file, and the caller's own blocks      *)
(* (for adoption).  One action per constructor, method and destructor.     *)
(***************************************************************************)
EXTENDS Integers, Sequences, FiniteSets, TLC

\* ------------------------------------------------------------------ bounds
NumBuf  == 2      \* MemoryBuffer objects that can exist at the same time
NumAddr == 3      \* distinct addresses the allocators can return
MaxN    == 1      \* largest element count requested
SizeofT == 2      \* sizeof(T), in bytes

\* --------------------------------------------------------------- constants
NULL == 0         \* nullptr

MemoryType == {"PAGEABLE", "PINNED", "DEVICE", "MANAGED"}

Buf   == 1..NumBuf
Addr  == 1..NumAddr
Byte  == {0, 1}                       \* a (narrow) byte
Base  == Cardinality(Byte)

RECURSIVE Pow(_, _)
Pow(b, e) == IF e = 0 THEN 1 ELSE b * Pow(b, e - 1)

Elem  == 0..(Pow(Base, SizeofT) - 1)  \* the values of a T
\* An element nobody has written yet (new T[n] and the gpu allocators initialize
\* nothing) or that is read where no block is: it stands for whatever value the
\* memory happens to hold, and a byte-wise copy of it is a copy of that value.
Indet     == Pow(Base, SizeofT)
IndetByte == Base
Cell  == Elem \cup {Indet}
Fresh(k) == [i \in 1..k |-> Indet]    \* the k elements of a block just allocated

VARIABLES
    gpu,     \* the build: TRUE iff __GPU__ is defined
    obj,     \* obj[b]: the members of buffer b, and whether it is constructed
    heap,    \* heap[a]: the block at address a, if one is allocated
    file,    \* the dump file: whether it exists, and its bytes
    last     \* the operation that ran last and how it ended

vars == <<gpu, obj, heap, file, last>>

\* ------------------------------------------------------------------- heap
FreeBlock == [live |-> FALSE, kind |-> "PAGEABLE", owner |-> "none", elems |-> <<>>]

NewBlock(kind, owner, elems) ==
    [live |-> TRUE, kind |-> kind, owner |-> owner, elems |-> elems]

FreeAddrs(h) == {a \in Addr : ~h[a].live}

\* the release routine that pairs with an allocation strategy
RoutineOf(kind) ==
    CASE kind = "PAGEABLE" -> "delete[]"
      [] kind = "PINNED"   -> "gpuHostFree"
      [] OTHER             -> "gpuFree"

\* a heap together with what the releases made on it so far have done wrong
Eff(h, dfree, mis) == [heap |-> h, dfree |-> dfree, mis |-> mis]

\* delete[] p / gpuHostFree(p) / gpuFree(p) after the effects e
ReleaseBlock(e, p, routine) ==
    IF e.heap[p].live
    THEN Eff([e.heap EXCEPT ![p] = FreeBlock], e.dfree,
             e.mis \/ routine # RoutineOf(e.heap[p].kind))
    ELSE Eff(e.heap, TRUE, e.mis)

\* ---------------------------------------------------------------- objects
NoObject == [alive |-> FALSE, data |-> NULL, n |-> 0, mem_type |-> "PAGEABLE"]

Object(data, n, mem_type) ==
    [alive |-> TRUE, data |-> data, n |-> n, mem_type |-> mem_type]

\* what ~MemoryBuffer() calls for the members o, "none" if nothing
DtorRoutine(o) ==
    IF o.data = NULL THEN "none"
    ELSE IF o.mem_type = "PAGEABLE" THEN "delete[]"
    ELSE IF gpu /\ o.mem_type = "PINNED" THEN "gpuHostFree"
    ELSE IF gpu /\ o.mem_type \in {"DEVICE", "MANAGED"} THEN "gpuFree"
    ELSE "none"

\* the body of ~MemoryBuffer() run on the members o: the members stay as they are
DtorBody(e, o) ==
    IF DtorRoutine(o) = "none" THEN e ELSE ReleaseBlock(e, o.data, DtorRoutine(o))

\* "if(_data) this->~MemoryBuffer();"
ReleasePrior(e, o) == IF o.data # NULL THEN DtorBody(e, o) ELSE e

\* what a read of k elements at p returns: the block's elements where the
\* block is there, whatever the memory holds where it is not
ReadElems(h, p, k) ==
    [i \in 1..k |-> IF p # NULL /\ h[p].live /\ i <= Len(h[p].elems)
                    THEN h[p].elems[i] ELSE Indet]

\* ------------------------------------------------------------------- file
NoFile == [exists |-> FALSE, bytes |-> <<>>]
File(bytes) == [exists |-> TRUE, bytes |-> bytes]
MaxFileLen == MaxN * SizeofT + 1       \* one byte more than the largest dump

\* the object representation of a T: SizeofT bytes, low byte first
ToBytes(c) ==
    [i \in 1..SizeofT |-> IF c = Indet THEN IndetByte
                          ELSE (c \div Pow(Base, i - 1)) % Base]

RECURSIVE Weigh(_, _)
Weigh(bs, i) == IF i > Len(bs) THEN 0 ELSE bs[i] * Pow(Base, i - 1) + Weigh(bs, i + 1)

\* the T whose object representation is bs
FromBytes(bs) ==
    IF \E i \in 1..Len(bs) : bs[i] = IndetByte THEN Indet ELSE Weigh(bs, 1)

\* a write of n bytes instead of n * sizeof(T): the first byte of each element
BytesOf_CountOnly(elems) ==
    [j \in 1..Len(elems) |-> ToBytes(elems[j])[1]]

\* reinterpret_cast<char*>(_data): the bytes of the elements, in order
BytesOf(elems) ==
    [j \in 1..(Len(elems) * SizeofT) |->
        ToBytes(elems[((j - 1) \div SizeofT) + 1])[((j - 1) % SizeofT) + 1]]

\* reinterpret_cast<T*>(buffer): the first k elements that the bytes hold
ElemsOf(bytes, k) ==
    [i \in 1..k |-> FromBytes(SubSeq(bytes, (i - 1) * SizeofT + 1, i * SizeofT))]

\* the record of the operation that ran last: its name, the buffer it ran on,
\* the other buffer (0 if none), the exception it threw ("none" if it
\* returned) and what its releases did wrong
Last(op, b, src, err, e) ==
    [op |-> op, b |-> b, src |-> src, err |-> err, dfree |-> e.dfree, mis |-> e.mis]

Clean(h) == Eff(h, FALSE, FALSE)

Outcome(o, e, err) == [o |-> o, e |-> e, err |-> err]

\* ------------------------------------------------------------------- Init
Init ==
    /\ gpu \in BOOLEAN
    /\ obj = [b \in Buf |-> NoObject]
    /\ heap = [a \in Addr |-> FreeBlock]
    /\ file = NoFile
    /\ last = Last("none", 0, 0, "none", Clean(heap))

\* a build whose #ifndef __GPU__ tests are missing
Supported_Always(r) == TRUE

\* a build without __GPU__ knows PAGEABLE only
Supported(r) == gpu \/ r = "PAGEABLE"

\* new T[k] / gpuHostAlloc / gpuMalloc / gpuMallocManaged of k elements that
\* then hold c, on the heap of e: every address the allocator may return
AllocBlock(e, kind, owner, c) ==
    {[a |-> a, e |-> Eff([e.heap EXCEPT ![a] = NewBlock(kind, owner, c)], e.dfree, e.mis)] :
        a \in FreeAddrs(e.heap)}

\* allocate() that forgets to record the residency it allocated with
AllocateOutcomes_KeepsType(o, h, ne, r) ==
    LET e1 == ReleasePrior(Clean(h), o) IN
    IF ~Supported(r) THEN {Outcome(o, e1, "invalid_argument")}
    ELSE IF ne = 0 THEN {Outcome(o, e1, "invalid_argument")}
    ELSE {Outcome(Object(x.a, ne, o.mem_type), x.e, "none") :
             x \in AllocBlock(e1, r, "buffer", Fresh(ne))}

\* allocate() without the test for n_elements == 0
AllocateOutcomes_NoZeroCheck(o, h, ne, r) ==
    LET e1 == ReleasePrior(Clean(h), o) IN
    IF ~Supported(r) THEN {Outcome(o, e1, "invalid_argument")}
    ELSE {Outcome(Object(x.a, ne, r), x.e, "none") :
             x \in AllocBlock(e1, r, "buffer", Fresh(ne))}

\* allocate(n_elements, mem_type) on the members o: every way it can end
AllocateOutcomes(o, h, ne, r) ==
    LET e1 == ReleasePrior(Clean(h), o) IN
    IF ~Supported(r) THEN {Outcome(o, e1, "invalid_argument")}
    ELSE IF ne = 0 THEN {Outcome(o, e1, "invalid_argument")}
    ELSE {Outcome(Object(x.a, ne, r), x.e, "none") :
             x \in AllocBlock(e1, r, "buffer", Fresh(ne))}

\* MemoryBuffer(){}: mem_type has no initializer
DefaultCtor(b) ==
    /\ ~obj[b].alive
    /\ \E t \in MemoryType : obj' = [obj EXCEPT ![b] = Object(NULL, 0, t)]
    /\ last' = Last("default_ctor", b, 0, "none", Clean(heap))
    /\ UNCHANGED <<gpu, heap, file>>

\* MemoryBuffer(n_elements, mem_type): allocate() on members that hold
\* nullptr, 0 and an uninitialized mem_type, which allocate() does not read
\* when _data is nullptr; a throw leaves no object
SizedCtor(b, ne, r) ==
    /\ ~obj[b].alive
    /\ \E out \in AllocateOutcomes(Object(NULL, 0, "PAGEABLE"), heap, ne, r) :
          /\ obj' = [obj EXCEPT ![b] = IF out.err = "none" THEN out.o ELSE NoObject]
          /\ heap' = out.e.heap
          /\ last' = Last("sized_ctor", b, 0, out.err, out.e)
    /\ UNCHANGED <<gpu, file>>

\* b.allocate(n_elements, mem_type)
Allocate(b, ne, r) ==
    /\ obj[b].alive
    /\ \E out \in AllocateOutcomes(obj[b], heap, ne, r) :
          /\ obj' = [obj EXCEPT ![b] = out.o]
          /\ heap' = out.e.heap
          /\ last' = Last("allocate", b, 0, out.err, out.e)
    /\ UNCHANGED <<gpu, file>>

\* the caller allocates a block of its own (to hand to the adopting constructor)
CallerAlloc(ne, r) ==
    /\ Supported(r)
    /\ \A a \in Addr : heap[a].owner # "caller"
    /\ \E x \in AllocBlock(Clean(heap), r, "caller", Fresh(ne)) : heap' = x.e.heap
    /\ last' = Last("caller_alloc", 0, 0, "none", Clean(heap))
    /\ UNCHANGED <<gpu, obj, file>>

\* the caller releases a block it still owns, with the routine of its strategy
CallerFree(a) ==
    /\ heap[a].live /\ heap[a].owner = "caller"
    /\ heap' = [heap EXCEPT ![a] = FreeBlock]
    /\ last' = Last("caller_free", 0, 0, "none", Clean(heap))
    /\ UNCHANGED <<gpu, obj, file>>

\* the adopting constructor without the test for a null pointer
AdoptOutcome_NoNullCheck(p, ne, r) ==
    IF ~Supported(r) THEN "invalid_argument"
    ELSE IF ne = 0 THEN "invalid_argument"
    ELSE "none"

\* MemoryBuffer(buffer, n_elements, mem_type) on the pointer p: its outcome
AdoptOutcome(p, ne, r) ==
    IF ~Supported(r) THEN "invalid_argument"
    ELSE IF ne = 0 THEN "invalid_argument"
    ELSE IF p = NULL THEN "invalid_argument"
    ELSE "none"

\* the pointers a caller can pass: nullptr or a block it owns; the count is at
\* most the block's; on a GPU build the residency is the block's strategy
AdoptCtor(b, p, ne, r) ==
    /\ ~obj[b].alive
    /\ p # NULL => /\ heap[p].live /\ heap[p].owner = "caller"
                   /\ ne <= Len(heap[p].elems)
                   /\ gpu => r = heap[p].kind
    /\ LET err == AdoptOutcome(p, ne, r) IN
          /\ obj' = [obj EXCEPT ![b] = IF err = "none" THEN Object(p, ne, r) ELSE NoObject]
          /\ heap' = IF err = "none" THEN [heap EXCEPT ![p].owner = "buffer"] ELSE heap
          /\ last' = Last("adopt_ctor", b, 0, err, Clean(heap))
    /\ UNCHANGED <<gpu, file>>

\* ~MemoryBuffer()
Destroy(b) ==
    /\ obj[b].alive
    /\ LET e == DtorBody(Clean(heap), obj[b]) IN
          /\ heap' = e.heap
          /\ last' = Last("dtor", b, 0, "none", e)
    /\ obj' = [obj EXCEPT ![b] = NoObject]
    /\ UNCHANGED <<gpu, file>>

\* a copy that takes the source's handle instead of a block of its own
CopyMembers_Shallow(keep, other, e) ==
    {Outcome(Object(other.data, other.n, other.mem_type), e, "none")}

\* the copy constructor's and the copy assignment's common part: n and mem_type
\* are the source's; a block is allocated and filled only if the source has a
\* handle and the build knows its residency, and _data stays `keep' otherwise
CopyMembers(keep, other, e) ==
    IF other.data # NULL /\ Supported(other.mem_type)
    THEN {Outcome(Object(x.a, other.n, other.mem_type), x.e, "none") :
             x \in AllocBlock(e, other.mem_type, "buffer",
                              ReadElems(e.heap, other.data, other.n))}
    ELSE {Outcome(Object(keep, other.n, other.mem_type), e, "none")}

\* MemoryBuffer(const MemoryBuffer& other): _data = nullptr first
CopyCtor(b, o) ==
    /\ b # o /\ ~obj[b].alive /\ obj[o].alive
    /\ \E out \in CopyMembers(NULL, obj[o], Clean(heap)) :
          /\ obj' = [obj EXCEPT ![b] = out.o]
          /\ heap' = out.e.heap
          /\ last' = Last("copy_ctor", b, o, "none", out.e)
    /\ UNCHANGED <<gpu, file>>

\* operator=(const MemoryBuffer&) without the test for this == &other: the
\* block is released and then copied from
CopyAssign_NoSelfTest(b, o) ==
    /\ obj[b].alive /\ obj[o].alive
    /\ LET e == ReleasePrior(Clean(heap), obj[b]) IN
       \E out \in CopyMembers(obj[b].data, obj[o], e) :
          /\ obj' = [obj EXCEPT ![b] = out.o]
          /\ heap' = out.e.heap
          /\ last' = Last("copy_assign", b, o, "none", out.e)
    /\ UNCHANGED <<gpu, file>>

\* operator=(const MemoryBuffer& other); this == &other returns at once
CopyAssign(b, o) ==
    /\ obj[b].alive /\ obj[o].alive
    /\ IF b = o
       THEN /\ UNCHANGED <<obj, heap>>
            /\ last' = Last("copy_assign", b, o, "none", Clean(heap))
       ELSE \E out \in CopyMembers(obj[b].data, obj[o],
                                   ReleasePrior(Clean(heap), obj[b])) :
               /\ obj' = [obj EXCEPT ![b] = out.o]
               /\ heap' = out.e.heap
               /\ last' = Last("copy_assign", b, o, "none", out.e)
    /\ UNCHANGED <<gpu, file>>

\* the members after a move from `other'
MovedInto(other) == Object(other.data, other.n, other.mem_type)

\* the members of the source after a move: only _data is reset
MovedFrom(other) == [other EXCEPT !.data = NULL]

\* MemoryBuffer(MemoryBuffer&& other)
MoveCtor(b, o) ==
    /\ b # o /\ ~obj[b].alive /\ obj[o].alive
    /\ obj' = [obj EXCEPT ![b] = MovedInto(obj[o]), ![o] = MovedFrom(obj[o])]
    /\ last' = Last("move_ctor", b, o, "none", Clean(heap))
    /\ UNCHANGED <<gpu, heap, file>>

\* operator=(MemoryBuffer&& other); there is no test for this == &other, so
\* with b = o the handle just released is copied onto itself and then reset
MoveAssign(b, o) ==
    /\ obj[b].alive /\ obj[o].alive
    /\ LET e == ReleasePrior(Clean(heap), obj[b])
           moved == [obj EXCEPT ![b] = MovedInto(obj[o])]
       IN  /\ obj' = [moved EXCEPT ![o] = MovedFrom(moved[o])]
           /\ heap' = e.heap
           /\ last' = Last("move_assign", b, o, "none", e)
    /\ UNCHANGED <<gpu, file>>

\* to_cpu() without the test for mem_type == DEVICE: it migrates whatever the
\* buffer's residency is
ToCpuOutcomes_Always(o, h, t) ==
    IF gpu /\ o.data # NULL
    THEN LET kind == IF t = "PINNED" THEN "PINNED" ELSE "PAGEABLE" IN
         {Outcome(Object(x.a, o.n, kind), ReleaseBlock(x.e, o.data, DtorRoutine(o)), "none") :
             x \in AllocBlock(Clean(h), kind, "buffer", ReadElems(h, o.data, o.n))}
    ELSE {Outcome(o, Clean(h), "none")}

\* to_cpu(to_type) on the members o: compiled in with __GPU__ only
ToCpuOutcomes(o, h, t) ==
    IF gpu /\ o.mem_type = "DEVICE" /\ o.data # NULL
    THEN LET kind == IF t = "PINNED" THEN "PINNED" ELSE "PAGEABLE" IN
         {Outcome(Object(x.a, o.n, kind), ReleaseBlock(x.e, o.data, "gpuFree"), "none") :
             x \in AllocBlock(Clean(h), kind, "buffer", ReadElems(h, o.data, o.n))}
    ELSE {Outcome(o, Clean(h), "none")}

ToCpu(b, t) ==
    /\ obj[b].alive
    /\ \E out \in ToCpuOutcomes(obj[b], heap, t) :
          /\ obj' = [obj EXCEPT ![b] = out.o]
          /\ heap' = out.e.heap
          /\ last' = Last("to_cpu", b, 0, "none", out.e)
    /\ UNCHANGED <<gpu, file>>

\* to_gpu() that releases every block it leaves with delete[]
ToGpuRoutine_DeleteOnly(mt) == "delete[]"

\* the release to_gpu() picks for the block it leaves
ToGpuRoutine(mt) ==
    IF mt = "PINNED" THEN "gpuHostFree"
    ELSE IF mt = "MANAGED" THEN "gpuFree"
    ELSE "delete[]"

\* to_gpu() on the members o: compiled in with __GPU__ only
ToGpuOutcomes(o, h) ==
    IF gpu /\ o.mem_type # "DEVICE" /\ o.data # NULL
    THEN {Outcome(Object(x.a, o.n, "DEVICE"),
                  ReleaseBlock(x.e, o.data, ToGpuRoutine(o.mem_type)), "none") :
             x \in AllocBlock(Clean(h), "DEVICE", "buffer", ReadElems(h, o.data, o.n))}
    ELSE {Outcome(o, Clean(h), "none")}

ToGpu(b) ==
    /\ obj[b].alive
    /\ \E out \in ToGpuOutcomes(obj[b], heap) :
          /\ obj' = [obj EXCEPT ![b] = out.o]
          /\ heap' = out.e.heap
          /\ last' = Last("to_gpu", b, 0, "none", out.e)
    /\ UNCHANGED <<gpu, file>>

\* b[i] = v through operator[]: host code writes an element of a buffer that is
\* not on the device, inside the block the handle points to
WriteElem(b, i, v) ==
    /\ obj[b].alive /\ obj[b].data # NULL /\ obj[b].mem_type # "DEVICE"
    /\ heap[obj[b].data].live
    /\ i <= obj[b].n /\ i <= Len(heap[obj[b].data].elems)
    /\ heap' = [heap EXCEPT ![obj[b].data].elems[i] = v]
    /\ last' = Last("write", b, 0, "none", Clean(heap))
    /\ UNCHANGED <<gpu, obj, file>>

\* dump(filename): to_cpu(), then open and write n * sizeof(T) bytes; io tells
\* how the stream fares: "ok", "open" (cannot be opened) or "write" (the
\* write fails after the file was truncated)
Dump(b, io) ==
    /\ obj[b].alive
    /\ \E out \in ToCpuOutcomes(obj[b], heap, "PAGEABLE") :
          /\ obj' = [obj EXCEPT ![b] = out.o]
          /\ heap' = out.e.heap
          /\ file' = CASE io = "ok"    -> File(BytesOf(ReadElems(out.e.heap, out.o.data, out.o.n)))
                       [] io = "open"  -> file
                       [] io = "write" -> File(<<>>)
          /\ last' = Last("dump", b, 0, IF io = "ok" THEN "none" ELSE "runtime_error", out.e)
    /\ UNCHANGED gpu

\* what infile.read(buffer, size) leaves in the buffer when it stops after k bytes
ReadBytes(bytes, k) == [j \in 1..Len(bytes) |-> IF j <= k THEN bytes[j] ELSE IndetByte]

\* size / sizeof(T): the elements from_dump() finds in a file of size bytes
DumpCount(size) == size \div SizeofT

\* from_dump(filename) into the object b; the read stops after k bytes (k is the
\* file's length when nothing goes wrong).  A file that cannot be opened gives
\* tellg() = -1, and new char[size_t(-1)] throws std::bad_alloc.
FromDump(b, k) ==
    /\ ~obj[b].alive
    /\ IF ~file.exists
       THEN /\ UNCHANGED <<obj, heap>>
            /\ last' = Last("from_dump", b, 0, "bad_alloc", Clean(heap))
       ELSE LET size == Len(file.bytes)
                ne   == DumpCount(size)
                buf  == ReadBytes(file.bytes, k)
            IN  /\ k <= size
                /\ \E x \in AllocBlock(Clean(heap), "PAGEABLE", "buffer", ElemsOf(buf, ne)) :
                      LET err == AdoptOutcome(x.a, ne, "PAGEABLE") IN
                      /\ heap' = x.e.heap
                      /\ obj' = [obj EXCEPT ![b] = IF err = "none"
                                                   THEN Object(x.a, ne, "PAGEABLE")
                                                   ELSE NoObject]
                      /\ last' = Last("from_dump", b, 0, err, x.e)
    /\ UNCHANGED <<gpu, file>>

\* somebody else creates the file, appends a byte to it or removes it
ExtCreate ==
    /\ ~file.exists
    /\ file' = File(<<>>)
    /\ last' = Last("ext_create", 0, 0, "none", Clean(heap))
    /\ UNCHANGED <<gpu, obj, heap>>

ExtAppend(v) ==
    /\ file.exists /\ Len(file.bytes) < MaxFileLen
    /\ file' = File(Append(file.bytes, v))
    /\ last' = Last("ext_append", 0, 0, "none", Clean(heap))
    /\ UNCHANGED <<gpu, obj, heap>>

ExtRemove ==
    /\ file.exists
    /\ file' = NoFile
    /\ last' = Last("ext_remove", 0, 0, "none", Clean(heap))
    /\ UNCHANGED <<gpu, obj, heap>>

\* ----------------------------------------------------------- specifications
\* Spec: handles and blocks.  Every constructor, method and destructor that
\* allocates, releases or hands over a block of the buffer's own making, with
\* every input; the elements are never written, so every block holds what its
\* allocation left there.
Next ==
    \/ \E b \in Buf : DefaultCtor(b)
    \/ \E b \in Buf, ne \in 0..MaxN, r \in MemoryType : SizedCtor(b, ne, r)
    \/ \E b \in Buf, ne \in 0..MaxN, r \in MemoryType : Allocate(b, ne, r)
    \/ \E b, o \in Buf : CopyCtor(b, o)
    \/ \E b, o \in Buf : CopyAssign(b, o)
    \/ \E b, o \in Buf : MoveCtor(b, o)
    \/ \E b, o \in Buf : MoveAssign(b, o)
    \/ \E b \in Buf, t \in MemoryType : ToCpu(b, t)
    \/ \E b \in Buf : ToGpu(b)
    \/ \E b \in Buf : Destroy(b)

Spec == Init /\ [][Next]_vars

\* SpecAdopt: the caller's blocks.  The caller allocates a block, hands it (or
\* nullptr) to the adopting constructor and releases what it still owns; the
\* buffers so made are re-allocated, copied, moved, migrated and destroyed.
NextAdopt ==
    \/ \E ne \in 1..MaxN, r \in MemoryType : CallerAlloc(ne, r)
    \/ \E a \in Addr : CallerFree(a)
    \/ \E b \in Buf, p \in {NULL} \cup Addr, ne \in 0..MaxN, r \in MemoryType :
          AdoptCtor(b, p, ne, r)
    \/ \E b \in Buf, ne \in 0..MaxN, r \in MemoryType : Allocate(b, ne, r)
    \/ \E b, o \in Buf : CopyCtor(b, o)
    \/ \E b, o \in Buf : MoveCtor(b, o)
    \/ \E b \in Buf, t \in MemoryType : ToCpu(b, t)
    \/ \E b \in Buf : ToGpu(b)
    \/ \E b \in Buf : Destroy(b)

SpecAdopt == Init /\ [][NextAdopt]_vars

\* SpecData: elements.  Buffers are made with a size, written element by
\* element, copied, moved, migrated and destroyed.
NextData ==
    \/ \E b \in Buf, ne \in 1..MaxN, r \in MemoryType : SizedCtor(b, ne, r)
    \/ \E b \in Buf, i \in 1..MaxN, v \in Elem : WriteElem(b, i, v)
    \/ \E b, o \in Buf : CopyCtor(b, o)
    \/ \E b, o \in Buf : CopyAssign(b, o)
    \/ \E b, o \in Buf : MoveCtor(b, o)
    \/ \E b, o \in Buf : MoveAssign(b, o)
    \/ \E b \in Buf, t \in MemoryType : ToCpu(b, t)
    \/ \E b \in Buf : ToGpu(b)
    \/ \E b \in Buf : Destroy(b)

SpecData == Init /\ [][NextData]_vars

\* SpecIO: the dump file.  The first buffer is made with a size, written,
\* migrated and dumped; any buffer is loaded from the file, which other
\* programs create, extend and remove; buffers are destroyed.
Writer == CHOOSE b \in Buf : \A c \in Buf : b <= c

NextIO ==
    \/ \E ne \in 1..MaxN, r \in MemoryType : SizedCtor(Writer, ne, r)
    \/ \E i \in 1..MaxN, v \in Elem : WriteElem(Writer, i, v)
    \/ \E t \in MemoryType : ToCpu(Writer, t)
    \/ ToGpu(Writer)
    \/ \E io \in {"ok", "open", "write"} : Dump(Writer, io)
    \/ \E b \in Buf, k \in 0..MaxFileLen : FromDump(b, k)
    \/ ExtCreate
    \/ \E v \in Byte : ExtAppend(v)
    \/ ExtRemove
    \/ \E b \in Buf : Destroy(b)

SpecIO == Init /\ [][NextIO]_vars

\* SpecCpu: the build without __GPU__.  Everything of Spec, and the caller's
\* blocks and the adopting constructor as well.
InitCpu == Init /\ ~gpu

NextCpu ==
    \/ Next
    \/ \E ne \in 1..MaxN, r \in MemoryType : CallerAlloc(ne, r)
    \/ \E a \in Addr : CallerFree(a)
    \/ \E b \in Buf, p \in {NULL} \cup Addr, ne \in 0..MaxN, r \in MemoryType :
          AdoptCtor(b, p, ne, r)

SpecCpu == InitCpu /\ [][NextCpu]_vars

\* ------------------------------------------------------------------ claims
\* b holds a block: its handle points to a live block of the buffer code that
\* has the strategy of b's residency and at least b's count of elements
Holds(b) ==
    /\ obj[b].alive /\ obj[b].data # NULL /\ obj[b].n > 0
    /\ heap[obj[b].data].live /\ heap[obj[b].data].owner = "buffer"
    /\ heap[obj[b].data].kind = obj[b].mem_type
    /\ Len(heap[obj[b].data].elems) >= obj[b].n

\* no other buffer has b's handle
Sole(b) == \A c \in Buf \ {b} : obj[c].alive => obj[c].data # obj[b].data

\* b is populated: it holds a block, and the block is its own
Populated(b) == Holds(b) /\ Sole(b)

\* C1: no block is released more than once: no release an operation makes
\* finds its block already released.
C1_ReleasedOnce == ~last.dfree

\* C2: in every reachable state of every buffer, the storage handle is null
\* if and only if size() is 0.
C2_NullIffZero ==
    \A b \in Buf : obj[b].alive => (obj[b].data = NULL <=> obj[b].n = 0)

\* C3: an allocate that fails on a buffer that holds an allocation leaves the
\* handle, the count and the residency as they were, and does not release
\* the block.
C3_FailedAllocateKeeps ==
    [][\A b \in Buf :
          (Populated(b) /\ last'.op = "allocate" /\ last'.b = b /\ last'.err # "none")
          => /\ obj'[b] = obj[b]
             /\ heap'[obj[b].data] = heap[obj[b].data]]_vars

\* C4: after d = move(b), by construction or by assignment, with b populated
\* and d another buffer: b has a null handle and size() 0, d has the handle,
\* the count and the residency b had, and destroying b releases nothing.
C4_MoveEmptiesSource ==
    [][\A d, b \in Buf :
          (d # b /\ Populated(b) /\ (MoveCtor(d, b) \/ MoveAssign(d, b)))
          => /\ obj'[b].data = NULL /\ obj'[b].n = 0
             /\ obj'[d] = Object(obj[b].data, obj[b].n, obj[b].mem_type)
             /\ DtorRoutine(obj'[b]) = "none"]_vars

\* C5: once every buffer has been destroyed, every block that the buffer code
\* allocated or adopted has been released.
C5_NoLeak ==
    (\A b \in Buf : ~obj[b].alive) =>
        \A a \in Addr : heap[a].live => heap[a].owner = "caller"

\* C6: no two distinct buffers have the same non-null storage handle.
C6_OneOwner ==
    \A b, c \in Buf :
        (b # c /\ obj[b].alive /\ obj[c].alive /\ obj[b].data # NULL)
        => obj[b].data # obj[c].data

\* the elements b has
ElemsIn(b) == ReadElems(heap, obj[b].data, obj[b].n)

C8_AllocateSucceeds ==
    [][\A b \in Buf, ne \in 1..MaxN, r \in MemoryType :
          (Supported(r) /\ last'.op \in {"allocate", "sized_ctor"} /\ last'.b = b
                        /\ (Allocate(b, ne, r) \/ SizedCtor(b, ne, r)))
          => /\ last'.err = "none"
             /\ obj'[b].alive /\ obj'[b].n = ne /\ obj'[b].mem_type = r
             /\ obj'[b].data # NULL
             /\ Holds(b)']_vars

\* allocate has just returned on a GPU build, leaving a managed block
C8_Witness ==
    /\ last.op = "allocate" /\ last.err = "none"
    /\ Holds(last.b) /\ obj[last.b].mem_type = "MANAGED" /\ obj[last.b].n = MaxN

\* C9: allocate(0, r) throws invalid_argument, for every residency r and on
\* both builds.
C9_AllocateZeroFails ==
    [][\A b \in Buf, r \in MemoryType :
          (last'.op = "allocate" /\ last'.b = b /\ Allocate(b, 0, r))
          => last'.err = "invalid_argument"]_vars

\* allocate has just thrown on a GPU build, where only a count of 0 is refused
C9_Witness ==
    gpu /\ last.op = "allocate" /\ last.err = "invalid_argument"

\* C10: the adopting constructor throws invalid_argument when the pointer is
\* null or the count is 0; when it throws, no buffer exists and the heap is
\* as it was, so the caller's block is not released; when it returns, the
\* buffer has exactly that pointer, count and residency, the heap is as it
\* was but for the block now being the buffer's, and the buffer's destructor
\* releases it with the routine of its strategy.
C10_Adoption ==
    [][\A b \in Buf, p \in {NULL} \cup Addr, ne \in 0..MaxN, r \in MemoryType :
          (last'.op = "adopt_ctor" /\ last'.b = b /\ AdoptCtor(b, p, ne, r))
          => /\ (p = NULL \/ ne = 0) => last'.err = "invalid_argument"
             /\ last'.err # "none" => (~obj'[b].alive /\ heap' = heap)
             /\ last'.err = "none" =>
                   /\ obj'[b] = Object(p, ne, r)
                   /\ heap' = [heap EXCEPT ![p].owner = "buffer"]
                   /\ DtorRoutine(obj'[b]) = RoutineOf(heap[p].kind)]_vars

\* the adopting constructor has just thrown and the caller's block is still there
C10_Witness ==
    /\ last.op = "adopt_ctor" /\ last.err = "invalid_argument"
    /\ \E a \in Addr : heap[a].live /\ heap[a].owner = "caller"

\* b has storage: its handle points to a live block of the buffer code that no
\* other buffer has a handle to
HasStorage(b) ==
    /\ obj[b].alive /\ obj[b].data # NULL
    /\ heap[obj[b].data].live /\ heap[obj[b].data].owner = "buffer"
    /\ Sole(b)

\* C11: on a build without __GPU__ the sized constructor, allocate() and the
\* adopting constructor throw invalid_argument for every residency but
\* PAGEABLE, the constructors leaving no buffer; and after every step each
\* block is a PAGEABLE one and each buffer that has storage has the
\* residency PAGEABLE.
C11_CpuPageableOnly ==
    [][~gpu =>
          /\ \A b \in Buf, ne \in 0..MaxN, r \in MemoryType \ {"PAGEABLE"} :
                /\ (last'.op = "sized_ctor" /\ SizedCtor(b, ne, r))
                      => (last'.err = "invalid_argument" /\ ~obj'[b].alive)
                /\ (last'.op = "allocate" /\ Allocate(b, ne, r))
                      => last'.err = "invalid_argument"
                /\ \A p \in {NULL} \cup Addr :
                      (last'.op = "adopt_ctor" /\ AdoptCtor(b, p, ne, r))
                      => (last'.err = "invalid_argument" /\ ~obj'[b].alive)
          /\ \A a \in Addr : heap'[a].live => heap'[a].kind = "PAGEABLE"
          /\ \A b \in Buf : HasStorage(b)' => obj'[b].mem_type = "PAGEABLE"]_vars

\* on a build without __GPU__ the adopting constructor has just thrown, in a
\* call made while the caller owns a block, next to a buffer that has storage
C11_Witness ==
    /\ ~gpu /\ last.op = "adopt_ctor" /\ last.err = "invalid_argument"
    /\ \E a \in Addr : heap[a].live /\ heap[a].owner = "caller"
    /\ \E b \in Buf : HasStorage(b) /\ obj[b].mem_type = "PAGEABLE"

\* C12: to_cpu(target) on a populated DEVICE buffer leaves the buffer with the
\* residency target and a new block of target's strategy, with the same
\* count and the elements the device block held, and releases the device
\* block exactly once.
C12_ToCpuToTarget ==
    [][\A b \in Buf, t \in MemoryType :
          (last'.op = "to_cpu" /\ last'.b = b /\ Populated(b)
              /\ obj[b].mem_type = "DEVICE" /\ ToCpu(b, t))
          => /\ obj'[b].mem_type = t
             /\ Holds(b)' /\ heap'[obj'[b].data].kind = t
             /\ obj'[b].data # obj[b].data
             /\ obj'[b].n = obj[b].n
             /\ ElemsIn(b)' = ElemsIn(b)
             /\ ~heap'[obj[b].data].live /\ ~last'.dfree /\ ~last'.mis]_vars

\* C13: to_cpu(target) on a buffer whose residency is PAGEABLE, PINNED or
\* MANAGED changes neither a buffer nor the heap - no handle, count,
\* residency or element changes, nothing is allocated and nothing released -
\* and after any to_cpu() a second to_cpu() changes nothing, so that two
\* calls in a row leave what one call leaves.
C13_ToCpuIdempotent ==
    [][\A b \in Buf, t \in MemoryType :
          (last'.op = "to_cpu" /\ last'.b = b /\ ToCpu(b, t))
          => /\ obj[b].mem_type # "DEVICE"
                   => (obj' = obj /\ heap' = heap /\ ~last'.dfree /\ ~last'.mis)
             /\ \A t2 \in MemoryType :
                   ToCpuOutcomes(obj'[b], heap', t2) = {Outcome(obj'[b], Clean(heap'), "none")}]_vars

\* to_cpu() has just returned on a populated MANAGED buffer whose element was
\* written by the host
C13_Witness ==
    /\ gpu /\ last.op = "to_cpu"
    /\ Populated(last.b) /\ obj[last.b].mem_type = "MANAGED"
    /\ ElemsIn(last.b)[1] \in Elem

\* what C14 says of a to_gpu() step on b that has to migrate: b ends DEVICE
\* with a DEVICE block of its own holding the same count and elements, and
\* the block it had is released once, with the routine of its strategy
MigratedToGpu(b) ==
    /\ obj'[b].mem_type = "DEVICE" /\ Holds(b)'
    /\ obj'[b].data # obj[b].data
    /\ obj'[b].n = obj[b].n
    /\ ElemsIn(b)' = ElemsIn(b)
    /\ ~heap'[obj[b].data].live /\ ~last'.dfree /\ ~last'.mis
    /\ \A c \in Buf \ {b} : obj'[c] = obj[c]

\* C14 as the claim has it: to_gpu() on a populated PAGEABLE, PINNED or
\* MANAGED buffer migrates it to the device, on any build; on a DEVICE buffer
\* or an empty one it changes nothing.
C14_ToGpu_AnyBuild ==
    [][\A b \in Buf :
          (last'.op = "to_gpu" /\ last'.b = b /\ ToGpu(b))
          => /\ (Populated(b) /\ obj[b].mem_type # "DEVICE") => MigratedToGpu(b)
             /\ (obj[b].mem_type = "DEVICE" \/ obj[b].data = NULL)
                   => (obj' = obj /\ heap' = heap)]_vars

\* C14, amended: on a build with __GPU__, to_gpu() on a populated PAGEABLE,
\* PINNED or MANAGED buffer migrates it to the device; on a DEVICE buffer or
\* an empty one, and on a build without __GPU__, it changes nothing.
C14_ToGpu ==
    [][\A b \in Buf :
          (last'.op = "to_gpu" /\ last'.b = b /\ ToGpu(b))
          => /\ (gpu /\ Populated(b) /\ obj[b].mem_type # "DEVICE") => MigratedToGpu(b)
             /\ (~gpu \/ obj[b].mem_type = "DEVICE" \/ obj[b].data = NULL)
                   => (obj' = obj /\ heap' = heap)]_vars

\* to_gpu() has just returned on a buffer that is now DEVICE and populated
\* and holds an element the host wrote, next to a PINNED buffer
C14_Witness ==
    /\ gpu /\ last.op = "to_gpu"
    /\ Populated(last.b) /\ obj[last.b].mem_type = "DEVICE"
    /\ ElemsIn(last.b)[1] \in Elem
    /\ \E c \in Buf : Populated(c) /\ obj[c].mem_type = "PINNED"

\* the file holds what a dump of b, as b is now, writes
HoldsDumpOf(b) == file.exists /\ file.bytes = BytesOf(ElemsIn(b))

\* C15: a dump of a populated buffer b that is not on the device and whose
\* stream works writes the bytes of b's elements and changes neither a buffer
\* nor the heap; and from_dump of a file that holds the dump of b, read to
\* its end, returns a new populated PAGEABLE buffer with b's count and b's
\* elements, byte for byte, and leaves b as it was.
C15_RoundTrip ==
    [][/\ \A b \in Buf :
             (last'.op = "dump" /\ last'.b = b /\ last'.err = "none"
                 /\ Populated(b) /\ obj[b].mem_type # "DEVICE" /\ Dump(b, "ok"))
             => (HoldsDumpOf(b)' /\ obj' = obj /\ heap' = heap)
       /\ \A b, c \in Buf :
             (last'.op = "from_dump" /\ last'.b = c
                 /\ Populated(b) /\ obj[b].mem_type # "DEVICE" /\ HoldsDumpOf(b)
                 /\ FromDump(c, Len(file.bytes)))
             => /\ last'.err = "none" /\ c # b
                /\ Populated(c)' /\ obj'[c].mem_type = "PAGEABLE"
                /\ obj'[c].n = obj[b].n
                /\ ElemsIn(c)' = ElemsIn(b)
                /\ BytesOf(ElemsIn(c))' = file.bytes
                /\ obj'[b] = obj[b] /\ ElemsIn(b)' = ElemsIn(b)]_vars

\* from_dump has just returned a buffer next to the populated PINNED buffer
\* whose dump the file holds; both hold the same element, which the host
\* wrote and which has a non-zero high byte
C15_Witness ==
    /\ last.op = "from_dump" /\ last.err = "none" /\ last.b # Writer
    /\ Populated(Writer) /\ obj[Writer].mem_type = "PINNED" /\ HoldsDumpOf(Writer)
    /\ Populated(last.b) /\ ElemsIn(last.b) = ElemsIn(Writer)
    /\ ElemsIn(Writer)[1] \in Elem /\ ElemsIn(Writer)[1] >= Base

\* C16: from_dump() of a file of S bytes, whatever S is, returns a buffer
\* whose size() is S / sizeof(T) rounded down.
C16_FloorCount ==
    [][\A b \in Buf, k \in 0..MaxFileLen :
          (last'.op = "from_dump" /\ last'.b = b /\ file.exists /\ FromDump(b, k))
          => /\ last'.err = "none" /\ obj'[b].alive
             /\ obj'[b].n = Len(file.bytes) \div SizeofT]_vars

\* what from_dump() does with the count: a file of S >= sizeof(T) bytes gives
\* a buffer whose size() is S / sizeof(T) rounded down, holding the elements
\* of the file's first size() * sizeof(T) bytes when the file is read to its
\* end; a file of S < sizeof(T) bytes gives invalid_argument and no buffer
FromDumpCounts ==
    [][\A b \in Buf, k \in 0..MaxFileLen :
          (last'.op = "from_dump" /\ last'.b = b /\ file.exists /\ FromDump(b, k))
          => LET S == Len(file.bytes) IN
             /\ S >= SizeofT =>
                   /\ last'.err = "none" /\ obj'[b].alive
                   /\ obj'[b].n = S \div SizeofT
                   /\ obj'[b].n * SizeofT <= S /\ S < (obj'[b].n + 1) * SizeofT
                   /\ k = S => BytesOf(ElemsIn(b))' = SubSeq(file.bytes, 1, obj'[b].n * SizeofT)
             /\ S < SizeofT => (last'.err = "invalid_argument" /\ ~obj'[b].alive)]_vars

\* C17: a dump() whose file cannot be opened or whose write fails, and a
\* from_dump() whose file is missing or whose read stops before the file's
\* end, throw runtime_error: dump() does not return normally and
\* from_dump() returns no buffer.
C17_IOFailureThrows ==
    [][/\ \A b \in Buf, io \in {"open", "write"} :
             (last'.op = "dump" /\ last'.b = b /\ Dump(b, io))
             => last'.err = "runtime_error"
       /\ \A b \in Buf, k \in 0..MaxFileLen :
             (last'.op = "from_dump" /\ last'.b = b /\ FromDump(b, k)
                 /\ (~file.exists \/ k < Len(file.bytes)))
             => (last'.err = "runtime_error" /\ ~obj'[b].alive)]_vars

\* the part of C17 that is about dump() alone
DumpFailureThrows ==
    [][\A b \in Buf, io \in {"open", "write"} :
          (last'.op = "dump" /\ last'.b = b /\ Dump(b, io))
          => last'.err = "runtime_error"]_vars

\* from_dump() never returns a buffer of a missing file
MissingFileThrows ==
    [][\A b \in Buf, k \in 0..MaxFileLen :
          (last'.op = "from_dump" /\ last'.b = b /\ FromDump(b, k) /\ ~file.exists)
          => (last'.err # "none" /\ ~obj'[b].alive)]_vars

\* from_dump() never returns a buffer after a short read
ShortReadThrows ==
    [][\A b \in Buf, k \in 0..MaxFileLen :
          (last'.op = "from_dump" /\ last'.b = b /\ FromDump(b, k)
              /\ file.exists /\ k < Len(file.bytes))
          => (last'.err # "none" /\ ~obj'[b].alive)]_vars

\* C18: the copy assignment b = b changes no buffer and no block: handle,
\* count, residency and elements of b are as before, nothing is allocated
\* and nothing is released.
C18_SelfAssign ==
    [][\A b \in Buf :
          (last'.op = "copy_assign" /\ last'.b = b /\ last'.src = b)
          => /\ obj' = obj /\ heap' = heap
             /\ ElemsIn(b)' = ElemsIn(b)
             /\ ~last'.dfree /\ ~last'.mis /\ last'.err = "none"]_vars

\* b = b has just returned on a populated buffer that holds an element the
\* host wrote
C18_Witness ==
    /\ last.op = "copy_assign" /\ last.b = last.src
    /\ Populated(last.b) /\ ElemsIn(last.b)[1] \in Elem

\* C19: no release made by a buffer uses a routine other than the one of the
\* strategy the block was allocated with; and in every state the residency
\* of a buffer whose handle points to a block is that block's strategy.
C19_RoutineMatchesStrategy ==
    /\ ~last.mis
    /\ \A b \in Buf :
          (obj[b].alive /\ obj[b].data # NULL /\ heap[obj[b].data].live)
          => heap[obj[b].data].kind = obj[b].mem_type

\* what holds of the buffers that have storage: the residency is the block's
\* strategy, the destructor's routine is the one of that strategy, and a step
\* in which such a buffer releases its block uses the right routine, once
OwnBlockRoutineMatches ==
    [][/\ \A b \in Buf :
             HasStorage(b)' =>
                /\ heap'[obj'[b].data].kind = obj'[b].mem_type
                /\ DtorRoutine(obj'[b]) = RoutineOf(heap'[obj'[b].data].kind)
       /\ \A b \in Buf :
             (HasStorage(b) /\ last'.b = b /\ ~heap'[obj[b].data].live)
             => (~last'.mis /\ ~last'.dfree)]_vars

\* C20: the copy assignment b = o, with o an empty buffer (null handle) and b
\* populated, releases b's block exactly once and leaves b with a null
\* handle, so that b has no handle to a released block and its destructor
\* would release nothing.
C20_AssignFromEmpty ==
    [][\A b, o \in Buf :
          (last'.op = "copy_assign" /\ last'.b = b /\ last'.src = o /\ b # o
              /\ Populated(b) /\ obj[o].data = NULL)
          => /\ ~heap'[obj[b].data].live /\ ~last'.dfree
             /\ obj'[b].data = NULL
             /\ DtorRoutine(obj'[b]) = "none"]_vars

\* the part of C20 that holds: the destination's block is released once,
\* with the routine of its strategy
AssignFromEmptyReleases ==
    [][\A b, o \in Buf :
          (last'.op = "copy_assign" /\ last'.b = b /\ last'.src = o /\ b # o
              /\ Populated(b) /\ obj[o].data = NULL)
          => (~heap'[obj[b].data].live /\ ~last'.dfree /\ ~last'.mis)]_vars
====
